---------------------------- MODULE Spec2Model ----------------------------
(* Model of packages/hurl/src/http/certificate.rs: the conversion of the   *)
(* text lines of a CertInfo into a Certificate record.                     *)
(*                                                                         *)
(* A Rust String is modelled as a sequence of one-character strings, so    *)
(* that splitting, lowercasing, scanning and formatting are computed       *)
(* character by character.                                                 *)
EXTENDS Integers, Sequences, FiniteSets, TLC

VARIABLES
    data,           \* cert_info.data : Vec<String>
    pc,             \* position inside Certificate::try_from
    idx,            \* position of the `for s in data` loop of parse_attributes
    attributes,     \* the HashMap<String, String> built by parse_attributes
    subject,        \* locals of try_from, bound in this order
    issuer,
    start_date,
    expire_date,
    serial_number,
    result,         \* value returned by try_from
    prev,           \* value returned by the previous call on the same input
    calls           \* number of completed calls of try_from on `data`

vars == <<data, pc, idx, attributes, subject, issuer, start_date,
          expire_date, serial_number, result, prev, calls>>

-----------------------------------------------------------------------------
(* Option and Result values.                                               *)

None == [some |-> FALSE]
Some(v) == [some |-> TRUE, val |-> v]
Ok(v) == [ok |-> TRUE, val |-> v]
Err(e) == [ok |-> FALSE, err |-> e]

(* A local that is not bound yet / a call that has not returned yet.       *)
Unbound == [bound |-> FALSE]
Pending == [ok |-> FALSE, pending |-> TRUE]

(* A message built by format!: a literal text followed by the rendering of *)
(* the argument; the text of the message is lit followed by arg.           *)
Msg(lit, arg) == [lit |-> lit, arg |-> arg]

-----------------------------------------------------------------------------
(* Characters.                                                             *)

UpperLetters ==
    <<"A", "B", "C", "D", "E", "F", "G", "H", "I", "J", "K", "L", "M",
      "N", "O", "P", "Q", "R", "S", "T", "U", "V", "W", "X", "Y", "Z">>
LowerLetters ==
    <<"a", "b", "c", "d", "e", "f", "g", "h", "i", "j", "k", "l", "m",
      "n", "o", "p", "q", "r", "s", "t", "u", "v", "w", "x", "y", "z">>
Digits == <<"0", "1", "2", "3", "4", "5", "6", "7", "8", "9">>

UpperSet == {UpperLetters[i] : i \in 1..26}
LowerSet == {LowerLetters[i] : i \in 1..26}
DigitSet == {Digits[i] : i \in 1..10}

LowerOf == [c \in UpperSet |->
               LowerLetters[CHOOSE i \in 1..26 : UpperLetters[i] = c]]
UpperOf == [c \in LowerSet |->
               UpperLetters[CHOOSE i \in 1..26 : LowerLetters[i] = c]]
ValueOf == [c \in DigitSet |-> (CHOOSE i \in 1..10 : Digits[i] = c) - 1]

IsUpper(c) == c \in UpperSet
IsLower(c) == c \in LowerSet
IsDigit(c) == c \in DigitSet
DigitVal(c) == ValueOf[c]

(* char::to_lowercase and char::to_uppercase on the ASCII letters.         *)
char_to_lowercase(c) == IF IsUpper(c) THEN LowerOf[c] ELSE c
char_to_uppercase(c) == IF IsLower(c) THEN UpperOf[c] ELSE c

(* str::to_lowercase (line 104), on lines made of ASCII characters.        *)
(* Faulty variant: the name is inserted as spelled.                        *)
to_lowercase_keep(s) == s
to_lowercase(s) == [i \in 1..Len(s) |-> char_to_lowercase(s[i])]

-----------------------------------------------------------------------------
(* Attribute tokenizer.                                                    *)

(* s.find(':') : 1-based position of the first colon, 0 for None.          *)
(* Faulty variant: the position of the last colon.                         *)
find_last_colon(s) ==
    IF \E i \in 1..Len(s) : s[i] = ":"
    THEN CHOOSE i \in 1..Len(s) :
            /\ s[i] = ":"
            /\ \A j \in (i+1)..Len(s) : s[j] # ":"
    ELSE 0
find_colon(s) ==
    IF \E i \in 1..Len(s) : s[i] = ":"
    THEN CHOOSE i \in 1..Len(s) :
            /\ s[i] = ":"
            /\ \A j \in 1..(i-1) : s[j] # ":"
    ELSE 0

(* parse_attribute: split_at(index), then drop the colon from the value.   *)
(* Faulty variant: a line without a colon is a name with an empty value.   *)
parse_attribute_whole_line(s) ==
    LET index == find_colon(s) IN
    IF index # 0
    THEN Some(<<SubSeq(s, 1, index - 1), SubSeq(s, index + 1, Len(s))>>)
    ELSE Some(<<s, <<>>>>)
parse_attribute(s) ==
    LET index == find_colon(s) IN
    IF index # 0
    THEN Some(<<SubSeq(s, 1, index - 1), SubSeq(s, index + 1, Len(s))>>)
    ELSE None

(* HashMap::insert.                                                        *)
(* Faulty variant: the first value inserted for a key is kept.             *)
insert_if_absent(map, key, value) ==
    [k \in DOMAIN map \cup {key} |-> IF k \in DOMAIN map THEN map[k] ELSE value]
insert(map, key, value) ==
    [k \in DOMAIN map \cup {key} |-> IF k = key THEN value ELSE map[k]]

EmptyMap == [k \in {} |-> <<>>]

(* The body of the loop of parse_attributes for one line s.                *)
parse_attributes_step(map, s) ==
    LET a == parse_attribute(s) IN
    IF a.some THEN insert(map, to_lowercase(a.val[1]), a.val[2]) ELSE map

(* parse_attributes on the lines data[1..n].                               *)
RECURSIVE parse_attributes_upto(_, _)
parse_attributes_upto(d, n) ==
    IF n = 0 THEN EmptyMap
    ELSE parse_attributes_step(parse_attributes_upto(d, n - 1), d[n])

parse_attributes(d) == parse_attributes_upto(d, Len(d))

-----------------------------------------------------------------------------
(* Debug rendering of the map, {attributes:?}.                             *)

(* The orders in which a HashMap with the default RandomState hasher may   *)
(* iterate over its keys: the hasher is seeded per map, so every order of  *)
(* the keys is possible.                                                   *)
RECURSIVE IterOrders(_)
IterOrders(keys) ==
    IF keys = {} THEN {<<>>}
    ELSE UNION {{<<k>> \o o : o \in IterOrders(keys \ {k})} : k \in keys}

(* <str as Debug>::fmt : quotes, with quote and backslash escaped (the     *)
(* other escapes are of control characters, which the lines do not hold).  *)
RECURSIVE escape_debug(_)
escape_debug(s) ==
    IF s = <<>> THEN <<>>
    ELSE (IF Head(s) \in {"\"", "\\"} THEN <<"\\", Head(s)>> ELSE <<Head(s)>>)
         \o escape_debug(Tail(s))

debug_str(s) == <<"\"">> \o escape_debug(s) \o <<"\"">>

RECURSIVE debug_entries(_, _)
debug_entries(map, order) ==
    IF order = <<>> THEN <<>>
    ELSE debug_str(Head(order)) \o <<":", " ">> \o debug_str(map[Head(order)])
         \o (IF Len(order) > 1 THEN <<",", " ">> ELSE <<>>)
         \o debug_entries(map, Tail(order))

debug_map(map, order) == <<"{">> \o debug_entries(map, order) \o <<"}">>

-----------------------------------------------------------------------------
(* chrono: NaiveDateTime::parse_from_str, as used by parse_date.           *)

(* The items StrftimeItems yields for the two format strings.              *)
Num(f, width, signed) == [kind |-> "numeric", field |-> f, width |-> width,
                          signed |-> signed]
Lit(text) == [kind |-> "literal", text |-> text]
Space == [kind |-> "space"]
ShortMonthName == [kind |-> "short_month_name"]

(* "%b %d %H:%M:%S %Y GMT" (line 85) *)
FormatMonthFirst ==
    <<ShortMonthName, Space, Num("day", 2, FALSE), Space,
      Num("hour", 2, FALSE), Lit(<<":">>), Num("minute", 2, FALSE),
      Lit(<<":">>), Num("second", 2, FALSE), Space,
      Num("year", 4, TRUE), Space, Lit(<<"G", "M", "T">>)>>

(* "%Y-%m-%d %H:%M:%S GMT" (line 87) *)
FormatYearFirst ==
    <<Num("year", 4, TRUE), Lit(<<"-">>), Num("month", 2, FALSE),
      Lit(<<"-">>), Num("day", 2, FALSE), Space,
      Num("hour", 2, FALSE), Lit(<<":">>), Num("minute", 2, FALSE),
      Lit(<<":">>), Num("second", 2, FALSE), Space,
      Lit(<<"G", "M", "T">>)>>
(* Faulty variant of the second format: "%Y-%d-%m %H:%M:%S GMT".           *)
FormatDayFirst ==
    <<Num("year", 4, TRUE), Lit(<<"-">>), Num("day", 2, FALSE),
      Lit(<<"-">>), Num("month", 2, FALSE), Space,
      Num("hour", 2, FALSE), Lit(<<":">>), Num("minute", 2, FALSE),
      Lit(<<":">>), Num("second", 2, FALSE), Space,
      Lit(<<"G", "M", "T">>)>>

MonthNames ==
    <<<<"j", "a", "n">>, <<"f", "e", "b">>, <<"m", "a", "r">>,
      <<"a", "p", "r">>, <<"m", "a", "y">>, <<"j", "u", "n">>,
      <<"j", "u", "l">>, <<"a", "u", "g">>, <<"s", "e", "p">>,
      <<"o", "c", "t">>, <<"n", "o", "v">>, <<"d", "e", "c">>>>

Drop(s, n) == SubSeq(s, n + 1, Len(s))

RECURSIVE trim_start(_)
trim_start(s) ==
    IF s # <<>> /\ Head(s) = " " THEN trim_start(Tail(s)) ELSE s

StartsWith(s, prefix) ==
    /\ Len(s) >= Len(prefix)
    /\ SubSeq(s, 1, Len(prefix)) = prefix

(* Number of leading digits of s, at most max.                             *)
RECURSIVE digits_upto(_, _)
digits_upto(s, max) ==
    IF max = 0 \/ s = <<>> \/ ~IsDigit(Head(s)) THEN 0
    ELSE 1 + digits_upto(Tail(s), max - 1)

RECURSIVE decimal(_)
decimal(s) ==
    IF s = <<>> THEN 0
    ELSE 10 * decimal(SubSeq(s, 1, Len(s) - 1)) + DigitVal(s[Len(s)])

(* scan::number(s, min, max) *)
number(s, min, max) ==
    LET upto == digits_upto(s, max) IN
    IF upto < min THEN Err("invalid")
    ELSE Ok([val |-> decimal(SubSeq(s, 1, upto)), rest |-> Drop(s, upto)])

(* scan::short_month0, case-insensitive on the three letters.              *)
short_month0(s) ==
    IF Len(s) < 3 THEN Err("too short")
    ELSE LET name == [j \in 1..3 |-> char_to_lowercase(s[j])] IN
         IF \E m \in 1..12 : MonthNames[m] = name
         THEN Ok([val |-> (CHOOSE m \in 1..12 : MonthNames[m] = name) - 1,
                  rest |-> Drop(s, 3)])
         ELSE Err("invalid")

(* A numeric item: leading whitespace is skipped; a signed item (the year) *)
(* takes any number of digits after an explicit sign, else `width` digits. *)
numeric(s0, item) ==
    LET s == trim_start(s0) IN
    IF item.signed /\ s # <<>> /\ Head(s) = "-"
    THEN LET r == number(Tail(s), 1, Len(s)) IN
         IF r.ok THEN Ok([val |-> 0 - r.val.val, rest |-> r.val.rest]) ELSE r
    ELSE IF item.signed /\ s # <<>> /\ Head(s) = "+"
    THEN number(Tail(s), 1, Len(s))
    ELSE number(s, 1, item.width)

(* format::parse : consume the items in order; input left over is an error *)
RECURSIVE parse_items(_, _, _)
parse_items(items, s, parsed) ==
    IF items = <<>>
    THEN (IF s = <<>> THEN Ok(parsed) ELSE Err("too long"))
    ELSE LET item == Head(items) IN
         IF item.kind = "literal"
         THEN (IF StartsWith(s, item.text)
               THEN parse_items(Tail(items), Drop(s, Len(item.text)), parsed)
               ELSE Err("invalid"))
         ELSE IF item.kind = "space"
         THEN parse_items(Tail(items), trim_start(s), parsed)
         ELSE IF item.kind = "short_month_name"
         THEN LET r == short_month0(s) IN
              IF r.ok
              THEN parse_items(Tail(items), r.val.rest,
                               [parsed EXCEPT !.month = r.val.val + 1])
              ELSE r
         ELSE LET r == numeric(s, item) IN
              IF r.ok
              THEN parse_items(Tail(items), r.val.rest,
                               [parsed EXCEPT ![item.field] = r.val.val])
              ELSE r

IsLeapYear(y) == (y % 4 = 0 /\ y % 100 # 0) \/ y % 400 = 0

DaysInMonth(y, m) ==
    IF m = 2 THEN (IF IsLeapYear(y) THEN 29 ELSE 28)
    ELSE IF m \in {4, 6, 9, 11} THEN 30 ELSE 31

(* Parsed::to_naive_datetime_with_offset(0): NaiveDate::from_ymd_opt and   *)
(* NaiveTime from hour, minute, second; second 60 is a leap second.        *)
to_naive_datetime(parsed) ==
    IF /\ parsed.year \in -262144..262143
       /\ parsed.month \in 1..12
       /\ parsed.day \in 1..DaysInMonth(parsed.year, parsed.month)
       /\ parsed.hour \in 0..23
       /\ parsed.minute \in 0..59
       /\ parsed.second \in 0..60
    THEN Ok(parsed)
    ELSE Err("out of range")

NewParsed == [year |-> 0, month |-> 0, day |-> 0,
              hour |-> 0, minute |-> 0, second |-> 0]

(* NaiveDateTime::parse_from_str(value, fmt) *)
parse_from_str(value, fmt) ==
    LET r == parse_items(fmt, value, NewParsed) IN
    IF r.ok THEN to_naive_datetime(r.val) ELSE r

(* NaiveDateTime::and_local_timezone(Utc).unwrap() : DateTime<Utc>         *)
and_local_timezone_utc(naive) == [datetime |-> naive, offset |-> 0]

-----------------------------------------------------------------------------
(* Field extractors.                                                       *)

(* Faulty variants: day and month swapped in the second format; the error *)
(* message without the value.                                              *)
parse_date_year_first_swapped(value) ==
    LET first == parse_from_str(value, FormatMonthFirst) IN
    IF first.ok THEN Ok(and_local_timezone_utc(first.val))
    ELSE LET second == parse_from_str(value, FormatDayFirst) IN
         IF second.ok THEN Ok(and_local_timezone_utc(second.val))
         ELSE Err(Msg("can not parse date ", <<"<">> \o value \o <<">">>))
parse_date_no_value(value) ==
    LET first == parse_from_str(value, FormatMonthFirst) IN
    IF first.ok THEN Ok(and_local_timezone_utc(first.val))
    ELSE LET second == parse_from_str(value, FormatYearFirst) IN
         IF second.ok THEN Ok(and_local_timezone_utc(second.val))
         ELSE Err(Msg("can not parse date ", <<>>))
parse_date(value) ==
    LET first == parse_from_str(value, FormatMonthFirst) IN
    IF first.ok THEN Ok(and_local_timezone_utc(first.val))
    ELSE LET second == parse_from_str(value, FormatYearFirst) IN
         IF second.ok THEN Ok(and_local_timezone_utc(second.val))
         ELSE Err(Msg("can not parse date ", <<"<">> \o value \o <<">">>))

KeySubject == <<"s", "u", "b", "j", "e", "c", "t">>
KeyIssuer == <<"i", "s", "s", "u", "e", "r">>
KeyStartDate == <<"s", "t", "a", "r", "t", " ", "d", "a", "t", "e">>
KeyExpireDate == <<"e", "x", "p", "i", "r", "e", " ", "d", "a", "t", "e">>
KeySerialNumber ==
    <<"s", "e", "r", "i", "a", "l", " ", "n", "u", "m", "b", "e", "r">>

(* attributes.get(key).cloned() *)
get(map, key) == IF key \in DOMAIN map THEN Some(map[key]) ELSE None

(* `order` is the iteration order of the map when it is rendered.          *)
parse_subject(map, order) ==
    LET v == get(map, KeySubject) IN
    IF v.some THEN Ok(v.val)
    ELSE Err(Msg("missing Subject attribute in ", debug_map(map, order)))

parse_issuer(map, order) ==
    LET v == get(map, KeyIssuer) IN
    IF v.some THEN Ok(v.val)
    ELSE Err(Msg("missing issuer attribute in ", debug_map(map, order)))

parse_start_date(map, order) ==
    LET v == get(map, KeyStartDate) IN
    IF v.some THEN parse_date(v.val)
    ELSE Err(Msg("missing start date attribute in ", debug_map(map, order)))

(* Faulty variant: the message embeds the map like the others.             *)
parse_expire_date_with_map(map, order) ==
    LET v == get(map, KeyExpireDate) IN
    IF v.some THEN parse_date(v.val)
    ELSE Err(Msg("missing expire date attribute in ", debug_map(map, order)))
parse_expire_date(map, order) ==
    LET v == get(map, KeyExpireDate) IN
    IF v.some THEN parse_date(v.val)
    ELSE Err(Msg("missing expire date attribute", <<>>))

parse_serial_number(map, order) ==
    LET v == get(map, KeySerialNumber) IN
    IF v.some THEN Ok(v.val)
    ELSE Err(Msg("Missing serial number attribute in ", debug_map(map, order)))

(* Faulty variant: the two dates exchanged.                                *)
CertificateDatesSwapped(s, i, sd, ed, sn) ==
    [subject |-> s, issuer |-> i, start_date |-> ed, expire_date |-> sd,
     serial_number |-> sn]
Certificate(s, i, sd, ed, sn) ==
    [subject |-> s, issuer |-> i, start_date |-> sd, expire_date |-> ed,
     serial_number |-> sn]

(* Lines 41-52 of try_from, as a function of the map and of the order in   *)
(* which it iterates: the `?` operator returns the first error.            *)
assemble(map, order) ==
    LET s == parse_subject(map, order)
        i == parse_issuer(map, order)
        sd == parse_start_date(map, order)
        ed == parse_expire_date(map, order)
        sn == parse_serial_number(map, order)
    IN  IF ~s.ok THEN s
        ELSE IF ~i.ok THEN i
        ELSE IF ~sd.ok THEN sd
        ELSE IF ~ed.ok THEN ed
        ELSE IF ~sn.ok THEN sn
        ELSE Ok(Certificate(s.val, i.val, sd.val, ed.val, sn.val))

(* Certificate::try_from as a function of the lines.                       *)
try_from(d, order) == assemble(parse_attributes(d), order)

-----------------------------------------------------------------------------
(* Rendering of a date and time in the two formats of parse_date, as the   *)
(* TLS layer writes them into the lines.                                   *)

RECURSIVE to_digits(_)
to_digits(n) ==
    IF n < 10 THEN <<Digits[n + 1]>>
    ELSE to_digits(n \div 10) \o <<Digits[(n % 10) + 1]>>

RECURSIVE pad_left(_, _, _)
pad_left(s, width, c) ==
    IF Len(s) >= width THEN s ELSE pad_left(<<c>> \o s, width, c)

pad(n, width, c) == pad_left(to_digits(n), width, c)

MonthAbbrev(m) ==
    <<char_to_uppercase(MonthNames[m][1]), MonthNames[m][2], MonthNames[m][3]>>

TimeOfDay(t) ==
    pad(t.hour, 2, "0") \o <<":">> \o pad(t.minute, 2, "0") \o <<":">>
    \o pad(t.second, 2, "0")

(* "%b %d %H:%M:%S %Y GMT"; day_pad is "0" (chrono) or " " (OpenSSL).      *)
render_month_first(t, day_pad) ==
    MonthAbbrev(t.month) \o <<" ">> \o pad(t.day, 2, day_pad) \o <<" ">>
    \o TimeOfDay(t) \o <<" ">> \o pad(t.year, 4, "0") \o <<" ", "G", "M", "T">>

(* "%Y-%m-%d %H:%M:%S GMT" *)
render_year_first(t) ==
    pad(t.year, 4, "0") \o <<"-">> \o pad(t.month, 2, "0") \o <<"-">>
    \o pad(t.day, 2, "0") \o <<" ">> \o TimeOfDay(t) \o <<" ", "G", "M", "T">>

render(t, style) ==
    IF style = "year first" THEN render_year_first(t)
    ELSE IF style = "month first" THEN render_month_first(t, "0")
    ELSE render_month_first(t, " ")

Styles == {"month first", "month first, space padded", "year first"}

-----------------------------------------------------------------------------
(* Inputs.                                                                 *)

MaxLines == 5
MaxNoise == 3
MaxRetryLines == 2
MaxCalls == 2

(* The lines of tests::test_try_from (lines 157-163), with shorter values, *)
(* and lines that are not well formed.                                     *)
LineSubject ==
    <<"S", "u", "b", "j", "e", "c", "t", ":", "C", " ", "=", " ", "U", "S">>
LineIssuer ==
    <<"I", "s", "s", "u", "e", "r", ":", " ", "C", "N", "=", "b">>
LineSerialNumber ==
    <<"S", "e", "r", "i", "a", "l", " ", "N", "u", "m", "b", "e", "r", ":",
      "1", "e", "e", "8">>
LineStartDate ==
    <<"S", "t", "a", "r", "t", " ", "d", "a", "t", "e", ":", "J", "a", "n",
      " ", "1", "0", " ", "0", "8", ":", "2", "9", ":", "5", "2", " ", "2",
      "0", "2", "3", " ", "G", "M", "T">>
LineExpireDate ==
    <<"E", "x", "p", "i", "r", "e", " ", "d", "a", "t", "e", ":", "2", "0",
      "2", "5", "-", "1", "0", "-", "3", "0", " ", "0", "8", ":", "2", "9",
      ":", "5", "2", " ", "G", "M", "T">>
LineStartDateBad ==
    <<"S", "T", "A", "R", "T", " ", "D", "A", "T", "E", ":", "1", "0", "/",
      "0", "1", "/", "2", "0", "2", "3">>
LineExpireDateBad ==
    <<"E", "x", "p", "i", "r", "e", " ", "D", "a", "t", "e", ":", "1", "0",
      "/", "0", "1", "/", "2", "0", "2", "3">>
LineStartDateUpper ==
    <<"S", "T", "A", "R", "T", " ", "D", "A", "T", "E", ":", "2", "0", "2",
      "4", "-", "0", "2", "-", "2", "9", " ", "2", "3", ":", "5", "9", ":",
      "6", "0", " ", "G", "M", "T">>
LineSubjectUpper ==
    <<"S", "U", "B", "J", "E", "C", "T", ":", "\"", "a", "\\", "b", "\"">>
LineNoise == <<"n", "o", "i", "s", "e">>
LineEmpty == <<>>

WellFormed == <<LineSubject, LineIssuer, LineSerialNumber, LineStartDate,
                LineExpireDate>>

Lines == {LineSubject, LineIssuer, LineStartDate, LineExpireDate,
          LineSerialNumber, LineStartDateBad, LineExpireDateBad}

NoiseLines == {LineNoise, LineEmpty, LineStartDateUpper, LineSubjectUpper}

SeqsUpTo(S, n) == UNION {[1..k -> S] : k \in 0..n}

(* Sequences in which no line occurs twice.                                *)
DistinctSeqsUpTo(S, n) ==
    {s \in SeqsUpTo(S, n) : \A i, j \in 1..Len(s) : s[i] = s[j] => i = j}

(* Dates and times of day, some of them not on the calendar or the clock.  *)
Years == {999, 1900, 2023, 2024}
Months == 1..12
Days == {1, 10, 29, 31}
Times == {<<0, 0, 0>>, <<8, 29, 52>>, <<23, 59, 60>>, <<24, 0, 0>>}

NameStartDate == <<"S", "t", "a", "r", "t", " ", "d", "a", "t", "e", ":">>
NameExpireDate == <<"E", "x", "p", "i", "r", "e", " ", "d", "a", "t", "e", ":">>

-----------------------------------------------------------------------------
(* Certificate::try_from, step by step.                                    *)

InitCall ==
    /\ pc = "attributes"
    /\ idx = 1
    /\ attributes = EmptyMap
    /\ subject = Unbound
    /\ issuer = Unbound
    /\ start_date = Unbound
    /\ expire_date = Unbound
    /\ serial_number = Unbound
    /\ result = Pending
    /\ prev = Pending
    /\ calls = 0

(* Any lines of Lines, in any order.                                       *)
Init ==
    /\ data \in DistinctSeqsUpTo(Lines, MaxLines)
    /\ InitCall

(* At most MaxNoise lines of noise and repeated names, before and after    *)
(* the lines of a certificate or on their own.                             *)
InitTokens ==
    /\ \E pre, post \in SeqsUpTo(NoiseLines, MaxNoise) :
       \E body \in {<<>>, WellFormed} :
           /\ Len(pre) + Len(post) <= MaxNoise
           /\ data = pre \o body \o post
    /\ InitCall

(* A certificate whose two dates are written in any of the styles.         *)
InitDates ==
    /\ \E y \in Years, m \in Months, d \in Days, t \in Times :
       \E s1, s2 \in Styles :
         LET at == [year |-> y, month |-> m, day |-> d,
                    hour |-> t[1], minute |-> t[2], second |-> t[3]]
         IN  data = <<LineSubject, LineIssuer,
                      NameStartDate \o render(at, s1),
                      NameExpireDate \o render(at, s2),
                      LineSerialNumber>>
    /\ InitCall

InitRetry ==
    /\ \E pre \in DistinctSeqsUpTo(Lines, MaxRetryLines) :
       \E body \in {<<>>, WellFormed} :
           data = pre \o body
    /\ InitCall

(* One iteration of the loop of parse_attributes, or its return.           *)
ParseAttributes ==
    /\ pc = "attributes"
    /\ IF idx <= Len(data)
       THEN /\ attributes' = parse_attributes_step(attributes, data[idx])
            /\ idx' = idx + 1
            /\ pc' = pc
       ELSE /\ pc' = "subject"
            /\ UNCHANGED <<attributes, idx>>
    /\ UNCHANGED <<data, subject, issuer, start_date, expire_date,
                   serial_number, result, prev, calls>>

(* The iteration orders to consider when an extractor looks up `key`: the  *)
(* rendering of the map reaches the caller only when the key is missing,   *)
(* so one order stands for all of them when it is present.                 *)
Orders(map, key) ==
    IF key \in DOMAIN map THEN {<<>>} ELSE IterOrders(DOMAIN map)

(* `?` on an Err: try_from returns it.                                     *)
Return(r) ==
    /\ result' = r
    /\ pc' = "done"
    /\ calls' = calls + 1

ParseSubject ==
    /\ pc = "subject"
    /\ \E order \in Orders(attributes, KeySubject) :
         LET r == parse_subject(attributes, order) IN
         IF r.ok
         THEN subject' = r.val /\ pc' = "issuer" /\ UNCHANGED <<result, calls>>
         ELSE Return(r) /\ UNCHANGED subject
    /\ UNCHANGED <<data, idx, attributes, issuer, start_date, expire_date,
                   serial_number, prev>>

ParseIssuer ==
    /\ pc = "issuer"
    /\ \E order \in Orders(attributes, KeyIssuer) :
         LET r == parse_issuer(attributes, order) IN
         IF r.ok
         THEN issuer' = r.val /\ pc' = "start_date" /\ UNCHANGED <<result, calls>>
         ELSE Return(r) /\ UNCHANGED issuer
    /\ UNCHANGED <<data, idx, attributes, subject, start_date, expire_date,
                   serial_number, prev>>

(* Faulty variant: a failed start date does not end the call.              *)
ParseStartDateContinue ==
    /\ pc = "start_date"
    /\ \E order \in Orders(attributes, KeyStartDate) :
         LET r == parse_start_date(attributes, order) IN
         /\ start_date' = (IF r.ok THEN r.val ELSE Unbound)
         /\ pc' = "expire_date"
         /\ UNCHANGED <<result, calls>>
    /\ UNCHANGED <<data, idx, attributes, subject, issuer, expire_date,
                   serial_number, prev>>
ParseStartDate ==
    /\ pc = "start_date"
    /\ \E order \in Orders(attributes, KeyStartDate) :
         LET r == parse_start_date(attributes, order) IN
         IF r.ok
         THEN start_date' = r.val /\ pc' = "expire_date"
              /\ UNCHANGED <<result, calls>>
         ELSE Return(r) /\ UNCHANGED start_date
    /\ UNCHANGED <<data, idx, attributes, subject, issuer, expire_date,
                   serial_number, prev>>

ParseExpireDate ==
    /\ pc = "expire_date"
    /\ \E order \in Orders(attributes, KeyExpireDate) :
         LET r == parse_expire_date(attributes, order) IN
         IF r.ok
         THEN expire_date' = r.val /\ pc' = "serial_number"
              /\ UNCHANGED <<result, calls>>
         ELSE Return(r) /\ UNCHANGED expire_date
    /\ UNCHANGED <<data, idx, attributes, subject, issuer, start_date,
                   serial_number, prev>>

ParseSerialNumber ==
    /\ pc = "serial_number"
    /\ \E order \in Orders(attributes, KeySerialNumber) :
         LET r == parse_serial_number(attributes, order) IN
         IF r.ok
         THEN serial_number' = r.val /\ pc' = "ok"
              /\ UNCHANGED <<result, calls>>
         ELSE Return(r) /\ UNCHANGED serial_number
    /\ UNCHANGED <<data, idx, attributes, subject, issuer, start_date,
                   expire_date, prev>>

(* Ok(Certificate { .. }) (lines 46-52) *)
ReturnOk ==
    /\ pc = "ok"
    /\ Return(Ok(Certificate(subject, issuer, start_date, expire_date,
                             serial_number)))
    /\ UNCHANGED <<data, idx, attributes, subject, issuer, start_date,
                   expire_date, serial_number, prev>>

(* The caller calls try_from again on the same lines.                      *)
Retry ==
    /\ pc = "done"
    /\ calls < MaxCalls
    /\ prev' = result
    /\ pc' = "attributes"
    /\ idx' = 1
    /\ attributes' = EmptyMap
    /\ subject' = Unbound
    /\ issuer' = Unbound
    /\ start_date' = Unbound
    /\ expire_date' = Unbound
    /\ serial_number' = Unbound
    /\ result' = Pending
    /\ UNCHANGED <<data, calls>>

Next ==
    \/ ParseAttributes
    \/ ParseSubject
    \/ ParseIssuer
    \/ ParseStartDate
    \/ ParseExpireDate
    \/ ParseSerialNumber
    \/ ReturnOk

NextRetry == Next \/ Retry

Spec == Init /\ [][Next]_vars
SpecTokens == InitTokens /\ [][Next]_vars
SpecDates == InitDates /\ [][Next]_vars
SpecRetry == InitRetry /\ [][NextRetry]_vars

-----------------------------------------------------------------------------
(* Properties.                                                             *)

Done == pc = "done"

FieldKeys == <<KeySubject, KeyIssuer, KeyStartDate, KeyExpireDate,
               KeySerialNumber>>

(* The extractor of the k-th field, in the order of try_from.              *)
Extract(k, map, order) ==
    CASE k = 1 -> parse_subject(map, order)
      [] k = 2 -> parse_issuer(map, order)
      [] k = 3 -> parse_start_date(map, order)
      [] k = 4 -> parse_expire_date(map, order)
      [] k = 5 -> parse_serial_number(map, order)

(* Whether a field fails does not depend on the iteration order.           *)
Fails(k, map) == ~Extract(k, map, <<>>).ok

Local(k) ==
    CASE k = 1 -> subject
      [] k = 2 -> issuer
      [] k = 3 -> start_date
      [] k = 4 -> expire_date
      [] k = 5 -> serial_number

(* text is "k1: v1, k2: v2}" for the entries of map with the keys `keys`,  *)
(* in some order.                                                          *)
RECURSIVE RendersEntries(_, _, _)
RendersEntries(text, map, keys) ==
    IF keys = {} THEN text = <<"}">>
    ELSE \E k \in keys :
            LET e == debug_str(k) \o <<":", " ">> \o debug_str(map[k])
                     \o (IF keys = {k} THEN <<>> ELSE <<",", " ">>)
            IN  /\ StartsWith(text, e)
                /\ RendersEntries(Drop(text, Len(e)), map, keys \ {k})

(* text is the Debug rendering of map for some iteration order.            *)
IsDebugOf(text, map) ==
    /\ text # <<>>
    /\ Head(text) = "{"
    /\ RendersEntries(Tail(text), map, DOMAIN map)

(* r is the error of the k-th extractor on map, for some iteration order.  *)
IsErrorOf(r, k, map) ==
    LET e == Extract(k, map, <<>>) IN
    \/ r = e
    \/ /\ ~r.ok
       /\ FieldKeys[k] \notin DOMAIN map
       /\ r.err.lit = e.err.lit
       /\ e.err.arg = <<"{", "}">>
       /\ IsDebugOf(r.err.arg, map)

(* C1: when try_from has returned, either no field fails and the result is *)
(* Ok, or the result is the error of the earliest failing field in the     *)
(* order subject, issuer, start_date, expire_date, serial_number, whatever *)
(* the later fields are; the fields before it are bound and no field from  *)
(* it on was evaluated.                                                    *)
C1_FirstError ==
    Done =>
        IF \A k \in 1..5 : ~Fails(k, attributes)
        THEN result.ok
        ELSE LET first == CHOOSE k \in 1..5 :
                            /\ Fails(k, attributes)
                            /\ \A j \in 1..(k - 1) : ~Fails(j, attributes)
             IN  /\ ~result.ok
                 /\ IsErrorOf(result, first, attributes)
                 /\ \A j \in 1..(first - 1) : Local(j) # Unbound
                 /\ \A j \in first..5 : Local(j) = Unbound

(* C1 witness: the issuer is missing and the two dates, which come later,  *)
(* are unparseable; the error returned is the issuer's.                    *)
C1_Witness ==
    /\ Done
    /\ KeySubject \in DOMAIN attributes
    /\ KeyIssuer \notin DOMAIN attributes
    /\ KeyStartDate \in DOMAIN attributes
    /\ KeyExpireDate \in DOMAIN attributes
    /\ Fails(3, attributes)
    /\ Fails(4, attributes)
    /\ ~result.ok
    /\ result.err.lit = "missing issuer attribute in "

(* C2: try_from returns a record exactly when the map holds the five keys  *)
(* and both date values parse; the record then holds the mapped subject,   *)
(* issuer and serial number verbatim and the parsed dates; otherwise it    *)
(* returns an error and nothing else.                                      *)
C2_CompleteOrError ==
    Done =>
        LET complete ==
                /\ \A k \in 1..5 : FieldKeys[k] \in DOMAIN attributes
                /\ parse_date(attributes[KeyStartDate]).ok
                /\ parse_date(attributes[KeyExpireDate]).ok
        IN  /\ attributes = parse_attributes(data)
            /\ result.ok <=> complete
            /\ result.ok =>
                 /\ DOMAIN result = {"ok", "val"}
                 /\ DOMAIN result.val = {"subject", "issuer", "start_date",
                                         "expire_date", "serial_number"}
                 /\ result.val.subject = attributes[KeySubject]
                 /\ result.val.issuer = attributes[KeyIssuer]
                 /\ result.val.serial_number = attributes[KeySerialNumber]
                 /\ result.val.start_date
                        = parse_date(attributes[KeyStartDate]).val
                 /\ result.val.expire_date
                        = parse_date(attributes[KeyExpireDate]).val
            /\ ~result.ok => DOMAIN result = {"ok", "err"}

(* C2 witness: the five lines of the test, in another order, give the      *)
(* record of the test.                                                     *)
C2_Witness ==
    /\ Done
    /\ data = <<LineExpireDate, LineSerialNumber, LineSubject, LineStartDate,
                LineIssuer>>
    /\ result.ok
    /\ result.val.subject = <<"C", " ", "=", " ", "U", "S">>
    /\ result.val.start_date.datetime =
          [year |-> 2023, month |-> 1, day |-> 10,
           hour |-> 8, minute |-> 29, second |-> 52]
    /\ result.val.expire_date.datetime =
          [year |-> 2025, month |-> 10, day |-> 30,
           hour |-> 8, minute |-> 29, second |-> 52]

(* C3: a second call of try_from on the same lines returns what the first  *)
(* call returned: the same record or the same error text.                  *)
C3_SameResult ==
    (Done /\ calls >= 2) => result = prev

Has(key) == key \in DOMAIN attributes

MsgExpireDateMissing == Err(Msg("missing expire date attribute", <<>>))

(* C8, as stated: with the keys of subject, issuer, start date and serial  *)
(* number mapped and the expire date not mapped, try_from returns the      *)
(* expire-date-missing message.                                            *)
C8_Original ==
    (/\ Done
     /\ Has(KeySubject) /\ Has(KeyIssuer) /\ Has(KeyStartDate)
     /\ Has(KeySerialNumber)
     /\ ~Has(KeyExpireDate))
    => result = MsgExpireDateMissing

(* C8, amended: with subject and issuer mapped, the start date mapped to a *)
(* value that parses and the expire date not mapped, try_from returns the  *)
(* message "missing expire date attribute", with no rendering of the map,  *)
(* whether or not a serial number is mapped and whatever the lines hold.   *)
C8_ExpireDateMissing ==
    (/\ Done
     /\ Has(KeySubject) /\ Has(KeyIssuer) /\ Has(KeyStartDate)
     /\ parse_date(attributes[KeyStartDate]).ok
     /\ ~Has(KeyExpireDate))
    => result = MsgExpireDateMissing

(* C8 witness: all the lines of the test but the expire date.              *)
C8_Witness ==
    /\ Done
    /\ data = <<LineSubject, LineIssuer, LineSerialNumber, LineStartDate>>
    /\ result = MsgExpireDateMissing

(* The value matches neither format of parse_date.                         *)
Unparseable(value) ==
    /\ ~parse_from_str(value, FormatMonthFirst).ok
    /\ ~parse_from_str(value, FormatYearFirst).ok

MsgCanNotParse(value) ==
    Err(Msg("can not parse date ", <<"<">> \o value \o <<">">>))

(* C10, as stated: a start date or expire date mapped to a value that      *)
(* matches neither format makes try_from return the error naming it.       *)
C10_Original ==
    Done =>
        \A key \in {KeyStartDate, KeyExpireDate} :
            (Has(key) /\ Unparseable(attributes[key]))
            => result = MsgCanNotParse(attributes[key])

(* C10, amended: parse_date fails on a value that matches neither format   *)
(* with "can not parse date <value>"; a start date or expire date mapped   *)
(* to such a value makes try_from return an error and no record, and that  *)
(* error is the one naming the value when every earlier field in the order *)
(* of evaluation is extracted.                                             *)
C10_UnparseableDate ==
    Done =>
        \A k \in {3, 4} :
            LET key == FieldKeys[k] IN
            (Has(key) /\ Unparseable(attributes[key]))
            => /\ parse_date(attributes[key]) = MsgCanNotParse(attributes[key])
               /\ ~result.ok
               /\ (\A j \in 1..(k - 1) : ~Fails(j, attributes))
                  => result = MsgCanNotParse(attributes[key])

(* C10 witness: the expire date is 10/01/2023 and the fields before it are *)
(* well formed.                                                            *)
C10_Witness ==
    /\ Done
    /\ Has(KeySubject) /\ Has(KeyIssuer) /\ Has(KeyStartDate)
    /\ ~Fails(3, attributes)
    /\ Has(KeyExpireDate)
    /\ attributes[KeyExpireDate]
          = <<"1", "0", "/", "0", "1", "/", "2", "0", "2", "3">>
    /\ result = Err(Msg("can not parse date ",
                        <<"<", "1", "0", "/", "0", "1", "/", "2", "0", "2",
                          "3", ">">>))

-----------------------------------------------------------------------------
(* Properties of the tokenizer.                                            *)

HasColon(s) == \E j \in 1..Len(s) : s[j] = ":"

(* The lines the loop of parse_attributes has processed.                   *)
Processed == 1..(idx - 1)

(* The name of a line with a colon, as spelled and as normalized.          *)
RawName(s) == SubSeq(s, 1, (CHOOSE j \in 1..Len(s) :
                              s[j] = ":" /\ \A h \in 1..(j - 1) : s[h] # ":") - 1)
RawValue(s) == SubSeq(s, Len(RawName(s)) + 2, Len(s))
Lowered(s) == [j \in 1..Len(s) |->
                  IF IsUpper(s[j]) THEN char_to_lowercase(s[j]) ELSE s[j]]

(* The line s with the case of the letters of its name changed: all upper  *)
(* (mode 0), all lower (mode -1), or the letter at position mode toggled.  *)
Recase(s, mode) ==
    LET n == Len(RawName(s)) IN
    [j \in 1..Len(s) |->
        IF j > n THEN s[j]
        ELSE IF mode = 0 THEN char_to_uppercase(s[j])
        ELSE IF mode = -1 THEN char_to_lowercase(s[j])
        ELSE IF j # mode THEN s[j]
        ELSE IF IsUpper(s[j]) THEN char_to_lowercase(s[j])
        ELSE char_to_uppercase(s[j])]

(* The ways of changing the case of the name of line i of d.               *)
Recasings(d) ==
    {p \in (1..Len(d)) \X (-1..13) :
        HasColon(d[p[1]]) /\ p[2] <= Len(RawName(d[p[1]]))}

Variant(d, p) == [d EXCEPT ![p[1]] = Recase(d[p[1]], p[2])]

C5_LastWins ==
    /\ \A i \in Processed :
          HasColon(data[i]) => Lowered(RawName(data[i])) \in DOMAIN attributes
    /\ \A k \in DOMAIN attributes :
          \E i \in Processed :
             /\ HasColon(data[i])
             /\ Lowered(RawName(data[i])) = k
             /\ attributes[k] = RawValue(data[i])
             /\ \A j \in (i + 1)..(idx - 1) :
                   ~(HasColon(data[j]) /\ Lowered(RawName(data[j])) = k)

(* C5 witness: "Start date" and then "START DATE" were processed, and the  *)
(* map holds the value of the second.                                      *)
C5_Witness ==
    /\ \E i, j \in Processed :
          i < j /\ data[i] = LineStartDate /\ data[j] = LineStartDateUpper
    /\ attributes[KeyStartDate] =
          <<"2", "0", "2", "4", "-", "0", "2", "-", "2", "9", " ", "2", "3", ":", "5", "9", ":", "6", "0", " ", "G", "M", "T">>

(* C6: parse_attribute gives None for a line without a colon and otherwise *)
(* a name without a colon and a value such that name, ":" and value make   *)
(* up the line: the value keeps leading spaces and further colons.         *)
C6_SplitAtFirstColon ==
    \A i \in Processed :
        LET a == parse_attribute(data[i]) IN
        /\ a.some <=> HasColon(data[i])
        /\ a.some =>
              /\ a.val[1] \o <<":">> \o a.val[2] = data[i]
              /\ \A j \in 1..Len(a.val[1]) : a.val[1][j] # ":"
              /\ attributes[Lowered(a.val[1])] \in
                    {RawValue(data[j]) : j \in {h \in Processed : HasColon(data[h])}}

(* C6 witness: the line "Start date:Jan 10 08:29:52 2023 GMT" was split    *)
(* and the map holds the value "Jan 10 08:29:52 2023 GMT"; the issuer's    *)
(* value kept its leading space.                                           *)
C6_Witness ==
    /\ \E i \in Processed : data[i] = LineStartDate
    /\ \E i \in Processed : data[i] = LineIssuer
    /\ attributes[KeyStartDate] =
          <<"J", "a", "n", " ", "1", "0", " ", "0", "8", ":", "2", "9", ":", "5", "2", " ", "2", "0", "2", "3", " ", "G", "M", "T">>
    /\ attributes[KeyIssuer] = <<" ", "C", "N", "=", "b">>

MissingLit ==
    <<"missing Subject attribute in ", "missing issuer attribute in ",
      "missing start date attribute in ", "missing expire date attribute",
      "Missing serial number attribute in ">>

(* C7: when no line has a colon, the map stays empty, each of the five     *)
(* extractors fails on it with its missing-attribute message, and try_from *)
(* returns "missing Subject attribute in {}".                              *)
C7_NoColonLines ==
    (\A i \in 1..Len(data) : ~HasColon(data[i])) =>
        /\ attributes = EmptyMap
        /\ Done =>
             /\ \A k \in 1..5 :
                   Extract(k, attributes, <<>>) =
                      Err(Msg(MissingLit[k],
                              IF k = 4 THEN <<>> ELSE <<"{", "}">>))
             /\ result = Err(Msg("missing Subject attribute in ",
                                 <<"{", "}">>))

(* C7 witness: try_from returned on two lines without a colon.             *)
C7_Witness ==
    /\ Done
    /\ data = <<LineNoise, LineEmpty>>
    /\ result = Err(Msg("missing Subject attribute in ", <<"{", "}">>))

(* C7 witness for the empty sequence of the test (lines 180-185).          *)
C7_WitnessEmpty ==
    /\ Done
    /\ data = <<>>
    /\ result = Err(Msg("missing Subject attribute in ", <<"{", "}">>))

-----------------------------------------------------------------------------
(* Properties of the date parser.                                          *)

ParsedDates == {start_date, expire_date} \ {Unbound}

(* C9: for every date and time that parse_date has produced, its rendering *)
(* in the month-first format (day padded with a zero or a space) and its   *)
(* rendering in the year-first format both parse, to that same instant;    *)
(* and when the expire date of the lines is a rendering of the instant of  *)
(* the start date, try_from returns equal start and expire dates.          *)
C9_TwoFormats ==
    /\ \A d \in ParsedDates :
          /\ parse_date(render_month_first(d.datetime, "0")) = Ok(d)
          /\ parse_date(render_month_first(d.datetime, " ")) = Ok(d)
          /\ parse_date(render_year_first(d.datetime)) = Ok(d)
          /\ d.offset = 0
    /\ (Done /\ result.ok) =>
          (attributes[KeyExpireDate] \in
               {render(result.val.start_date.datetime, st) : st \in Styles}
           => result.val.expire_date = result.val.start_date)

(* C9 witness: "Jan 10 08:29:52 2023 GMT" and "2023-01-10 08:29:52 GMT"    *)
(* are both parsed to 2023-01-10T08:29:52Z.                                *)
C9_Witness ==
    /\ Done
    /\ result.ok
    /\ attributes[KeyStartDate] =
          <<"J", "a", "n", " ", "1", "0", " ", "0", "8", ":", "2", "9", ":", "5", "2", " ", "2", "0", "2", "3", " ", "G", "M", "T">>
    /\ attributes[KeyExpireDate] =
          <<"2", "0", "2", "3", "-", "0", "1", "-", "1", "0", " ", "0", "8", ":", "2", "9", ":", "5", "2", " ", "G", "M", "T">>
    /\ result.val.start_date = result.val.expire_date
    /\ result.val.start_date =
          [datetime |-> [year |-> 2023, month |-> 1, day |-> 10,
                         hour |-> 8, minute |-> 29, second |-> 52],
           offset |-> 0]

=============================================================================
